---- MODULE Spec2Model ----
(***************************************************************************)
(* Motion-sensor demonstration pages of accel-one-shot:                    *)
(*   "three"    three-axis integrator      (src/main.js 1-323)             *)
(*   "mag"      magnitude integrator       (src/main.js 325-582)           *)
(*   "analytic" capture-and-run simulator  (src/unnamed/part_000 1-414)    *)
(*   "logger"   max-acceleration logger    (src/unnamed/part_000 417-456)  *)
(* Every page is a script of its own; one behaviour of the model is one    *)
(* page load on one platform.  Each action is one macrotask of the         *)
(* browser's event loop: an event handler together with the microtasks     *)
(* (promise continuations) it triggers.                                    *)
(***************************************************************************)
EXTENDS Integers, Sequences, FiniteSets

\* The clock of the model counts tenths of a second: nowSec() is now / TicksPerSec.
TicksPerSec == 10

(***************************************************************************)
(* Bounds of the model.                                                    *)
(***************************************************************************)
\* the wall clock stops advancing at MaxNow ticks
MaxNow == 2
\* Start actions whose permission request is pending at the same time
MaxPending == 2
\* capture closures alive (subscribed or pending) at the same time
MaxListeners == 2
\* samples one capture closure collects
MaxSamples == 2
\* entries the plot buffers hold before frame ticks are cut off
MaxBufLen == 2
\* motion events an integrator or the logger handles in one page load
MaxEvents == 3
\* the resolution of square roots that are not rational
SqrtScale == 100
\* the wall clock of the sample-window specification stops at MaxWindowNow ticks
MaxWindowNow == 9
\* the wall clock of the plot-buffer specification stops at MaxBufferNow ticks
MaxBufferNow == 105

(***************************************************************************)
(* Numbers.  A JavaScript number is modelled as an exact rational          *)
(* [n |-> numerator, d |-> denominator] in lowest terms with d > 0;        *)
(* NaN has d = 0 and null/undefined has d = -1.                            *)
(***************************************************************************)
Abs(i) == IF i < 0 THEN -i ELSE i

RECURSIVE GCD(_, _)
GCD(a, b) == IF b = 0 THEN a ELSE GCD(b, a % b)

Rat(n, d) ==
  LET g == GCD(Abs(n), Abs(d))
      s == IF d < 0 THEN -1 ELSE 1
  IN [n |-> (s * n) \div g, d |-> (s * d) \div g]

Num(i) == [n |-> i, d |-> 1]
Zero == Num(0)
NaN == [n |-> 0, d |-> 0]
Null == [n |-> 0, d |-> -1]

\* Number.isFinite / isFinite on the values of the model
IsFinite(a) == a.d > 0

\* ToNumber: null coerces to 0 in arithmetic
ToNum(a) == IF a = Null THEN Zero ELSE a

\* sums and products cancel common factors first, to keep the integers small
Add(a, b) ==
  LET x == ToNum(a) y == ToNum(b)
      g == GCD(x.d, y.d)
  IN IF x = NaN \/ y = NaN THEN NaN
     ELSE Rat(x.n * (y.d \div g) + y.n * (x.d \div g), x.d * (y.d \div g))

Neg(a) == LET x == ToNum(a) IN IF x = NaN THEN NaN ELSE [n |-> -x.n, d |-> x.d]

Sub(a, b) == Add(a, Neg(b))

Mul(a, b) ==
  LET x == ToNum(a) y == ToNum(b)
      g1 == GCD(Abs(x.n), y.d)
      g2 == GCD(Abs(y.n), x.d)
  IN IF x = NaN \/ y = NaN THEN NaN
     ELSE Rat((x.n \div g1) * (y.n \div g2), (x.d \div g2) * (y.d \div g1))

\* x / y; 0 / 0 is NaN (no other division by zero occurs in the pages)
Div(a, b) ==
  LET x == ToNum(a) y == ToNum(b)
  IN IF x = NaN \/ y = NaN \/ y.n = 0 THEN NaN ELSE Rat(x.n * y.d, x.d * y.n)

\* comparisons are false when an operand is NaN
Lt(a, b) ==
  LET x == ToNum(a) y == ToNum(b)
  IN x # NaN /\ y # NaN /\ x.n * y.d < y.n * x.d

Le(a, b) ==
  LET x == ToNum(a) y == ToNum(b)
  IN x # NaN /\ y # NaN /\ x.n * y.d <= y.n * x.d

Gt(a, b) == Lt(b, a)
Ge(a, b) == Le(b, a)

MathAbs(a) == LET x == ToNum(a) IN IF x = NaN THEN NaN ELSE [n |-> Abs(x.n), d |-> x.d]

MathMax(a, b) ==
  LET x == ToNum(a) y == ToNum(b)
  IN IF x = NaN \/ y = NaN THEN NaN ELSE IF Lt(x, y) THEN y ELSE x

MathMin(a, b) ==
  LET x == ToNum(a) y == ToNum(b)
  IN IF x = NaN \/ y = NaN THEN NaN ELSE IF Lt(y, x) THEN y ELSE x

\* x || dflt on numbers: NaN and 0 are falsy
OrElse(a, dflt) == IF a = NaN \/ a = Null \/ a.n = 0 THEN dflt ELSE a

\* x ?? dflt
Coalesce(a, dflt) == IF a = Null THEN dflt ELSE a

\* x.toFixed(3): the number of thousandths nearest to x (halves away from zero)
ToFixed3(a) ==
  LET x == ToNum(a)
      q == (2 * 1000 * Abs(x.n) + x.d) \div (2 * x.d)
  IN IF x.n < 0 THEN -q ELSE q

\* x.toFixed(2): the number of hundredths nearest to x
ToFixed2(a) ==
  LET x == ToNum(a)
      q == (2 * 100 * Abs(x.n) + x.d) \div (2 * x.d)
  IN IF x.n < 0 THEN -q ELSE q

\* the greatest k in lo..hi with k * k <= i
RECURSIVE isqrtIn(_, _, _)
isqrtIn(i, lo, hi) ==
  IF lo >= hi THEN lo
  ELSE LET mid == (lo + hi + 1) \div 2
       IN IF mid * mid <= i THEN isqrtIn(i, mid, hi) ELSE isqrtIn(i, lo, mid - 1)

isqrt(i) == isqrtIn(i, 0, IF i < 46340 THEN i ELSE 46340)

\* Math.sqrt: exact on squares of rationals, else rounded down to 1 / SqrtScale
Sqrt(a) ==
  LET x == ToNum(a)
      rn == isqrt(x.n)
      rd == isqrt(x.d)
  IN IF x = NaN \/ x.n < 0 THEN NaN
     ELSE IF rn * rn = x.n /\ rd * rd = x.d THEN Rat(rn, rd)
     ELSE Rat(isqrt((x.n * SqrtScale * SqrtScale) \div x.d), SqrtScale)

\* Number(text) for the texts the input fields of the model hold
Number(text) ==
  CASE text = "2" -> Num(2)
    [] text = "-1" -> Num(-1)
    [] text = "0" -> Zero
    [] text = "" -> Zero
    [] text = "0.01" -> Rat(1, 100)
    [] text = "0.1" -> Rat(1, 10)
    [] text = "0.2" -> Rat(1, 5)
    [] text = "9" -> Num(9)
    [] OTHER -> NaN

\* parseFloat(text) for the same texts
parseFloat(text) == IF text = "" THEN NaN ELSE Number(text)

\* what a text readout shows: a number of thousandths or hundredths, or "-"
Shown(k) == [dash |-> FALSE, val |-> k]
Dash == [dash |-> TRUE, val |-> 0]

(***************************************************************************)
(* Motion events.  A reading is an acceleration object, or absent.         *)
(***************************************************************************)
Reading(x, y, z) == [present |-> TRUE, x |-> x, y |-> y, z |-> z]
NoReading == [present |-> FALSE, x |-> Null, y |-> Null, z |-> Null]

(***************************************************************************)
(* State.                                                                  *)
(***************************************************************************)
VARIABLES
  page,           \* which script the page runs
  platform,       \* what window.DeviceMotionEvent / DeviceOrientationEvent are
  now,            \* performance.now(), in clock ticks
  sim,            \* analytic: the sim object
  el,             \* the DOM elements the page script writes
  listeners,      \* the window's devicemotion listeners, in registration order
  motionHandler,  \* analytic: id of the closure motionHandler refers to, 0 for null
  pending,        \* Start actions suspended in an await, per awaited prompt
  rafPending,     \* analytic: a requestAnimationFrame(tick) callback is scheduled
  running,        \* integrators, logger: the running flag
  lastT,          \* integrators: time of the previous event handled, Null for null
  samples,        \* integrators: the sample buffer
  v,              \* integrators: velocity
  p,              \* integrators: position
  lastA,          \* integrators: last acceleration
  gLP,            \* integrators: low-pass gravity estimate
  attached,       \* integrators: window.__accel_listener_attached / __motion_listener_attached
  maxA,           \* logger: running maximum
  lastOp,         \* history: the macrotask that ran last
  hist            \* history: facts about the run the claims refer to

vars == <<page, platform, now, sim, el, listeners, motionHandler, pending,
          rafPending, running, lastT, samples, v, p, lastA, gLP, attached, maxA,
          lastOp, hist>>

simVars == <<sim, motionHandler, rafPending>>
integVars == <<running, lastT, samples, v, p, lastA, gLP, attached, maxA>>

\* the events the sensor delivers in the model
EvNone == [accelerationIncludingGravity |-> NoReading, acceleration |-> NoReading]
EvGravity ==
  [accelerationIncludingGravity |-> Reading(Zero, Zero, Num(1)),
   acceleration |-> Reading(Null, Null, Null)]
EvBoth ==
  [accelerationIncludingGravity |-> Reading(Num(-40), Num(-75), Zero),
   acceleration |-> Reading(Num(2), Zero, Zero)]

Events == IF page = "analytic" THEN {EvNone, EvBoth} ELSE {EvNone, EvGravity, EvBoth}

\* nowSec(): performance.now() * 1e-3
nowSec == Rat(now, TicksPerSec)

\* the three shapes window.DeviceMotionEvent / DeviceOrientationEvent can have:
\* undefined, defined without requestPermission, defined with requestPermission
Capabilities == {"absent", "plain", "gated"}

\* the platforms of the model: no sensor at all, orientation only, no prompt,
\* a motion prompt, and an orientation prompt followed by a motion prompt
Platforms ==
  { [DME |-> "absent", DOE |-> "absent"],
    [DME |-> "absent", DOE |-> "plain"],
    [DME |-> "plain", DOE |-> "plain"],
    [DME |-> "gated", DOE |-> "plain"],
    [DME |-> "gated", DOE |-> "gated"] }

Op(op, arg, from) == [op |-> op, arg |-> arg, from |-> from, done |-> "", ran |-> 0]

(***************************************************************************)
(* Analytic simulator (src/unnamed/part_000 1-414).                        *)
(***************************************************************************)
RECURSIVE sumFrom(_, _)
sumFrom(arr, i) == IF i > Len(arr) THEN Zero ELSE Add(arr[i], sumFrom(arr, i + 1))

mean(arr) == IF Len(arr) = 0 THEN NaN ELSE Div(sumFrom(arr, 1), Num(Len(arr)))

clamp(x, lo, hi) == MathMax(lo, MathMin(hi, x))

\* The analytic page's mutable world as one record, threaded through the
\* functions of the script: w.sim, w.el, w.listeners, w.motionHandler.
\* w.ran is history: how often the step has called setState(RUNNING).
World ==
  [sim |-> sim, el |-> el, listeners |-> listeners, motionHandler |-> motionHandler,
   ran |-> 0]

setState(w, s) ==
  [w EXCEPT !.sim.state = s,
            !.el.state = s,
            !.el.btnStartDisabled = ~(s = "WAIT" \/ s = "STOPPED"),
            !.el.btnStopDisabled = ~(s = "RUNNING" \/ s = "CAPTURING")]

\* window.removeEventListener("devicemotion", h) for the closure with this id
removeEventListener(ls, id) == SelectSeq(ls, LAMBDA h : h.id # id)

stopListeningMotion(w) ==
  IF w.motionHandler # 0
  THEN [w EXCEPT !.listeners = removeEventListener(w.listeners, w.motionHandler),
                 !.motionHandler = 0]
  ELSE w

\* A fresh closure is an object distinct from every live one: it gets the least
\* id no subscribed closure has.
freshId(ls) == CHOOSE i \in 1..(Len(ls) + 1) : \A k \in 1..Len(ls) : ls[k].id # i

\* lines 128-134 and 179-180
captureOnceThenRun(w) ==
  LET axis == w.el.axis
      gain == OrElse(Number(w.el.gain), Num(1))
      tc == clamp(OrElse(Number(w.el.tcapture), Rat(1, 5)), Rat(1, 20), Rat(1, 2))
      h == [id |-> freshId(w.listeners), axis |-> axis, gain |-> gain, tc |-> tc,
            samples |-> <<>>, tStart |-> nowSec]
      w1 == [w EXCEPT !.motionHandler = h.id, !.listeners = Append(w.listeners, h)]
  IN setState(w1, "CAPTURING")

\* index of the subscribed closure with this id, 0 when it is not subscribed
indexOf(ls, id) ==
  IF \E k \in 1..Len(ls) : ls[k].id = id
  THEN CHOOSE k \in 1..Len(ls) : ls[k].id = id
  ELSE 0

\* lines 136-177: the closure with this id handles event ev
motionHandlerBody(w, id, ev) ==
  LET k == indexOf(w.listeners, id)
      h == w.listeners[k]
      a == IF ev.accelerationIncludingGravity.present
           THEN ev.accelerationIncludingGravity ELSE ev.acceleration
      u0 == Zero
      u1 == IF h.axis = "x" THEN Coalesce(a.x, Zero) ELSE u0
      u2 == IF h.axis = "y" THEN Coalesce(a.y, Zero) ELSE u1
      u3 == IF h.axis = "z" THEN Coalesce(a.z, Zero) ELSE u2
      u == clamp(MathAbs(u3), Zero, Num(50))
      smp == Append(h.samples, u)
      w1 == [w EXCEPT !.listeners[k].samples = smp]
      w2 == stopListeningMotion(w1)
      a0raw == mean(smp)
      w3 == [w2 EXCEPT !.sim.a0 = IF ~IsFinite(a0raw) THEN Zero ELSE Mul(h.gain, a0raw),
                       !.sim.x0 = Zero,
                       !.sim.v0 = Zero,
                       !.sim.t0_wall = nowSec,
                       !.sim.t_stop = Zero,
                       !.sim.bufT = <<>>,
                       !.sim.bufA = <<>>,
                       !.sim.bufV = <<>>,
                       !.sim.bufX = <<>>,
                       !.ran = w.ran + 1]
  IN IF ~a.present THEN w
     ELSE IF Ge(Sub(nowSec, h.tStart), h.tc) THEN setState(w3, "RUNNING")
     ELSE w1

\* The browser dispatches a devicemotion event to the listeners registered when
\* the dispatch began, in registration order, skipping those removed meanwhile.
RECURSIVE dispatch(_, _, _)
dispatch(w, ids, ev) ==
  IF ids = <<>> THEN w
  ELSE LET w1 == IF indexOf(w.listeners, Head(ids)) # 0
                 THEN motionHandlerBody(w, Head(ids), ev)
                 ELSE w
       IN dispatch(w1, Tail(ids), ev)

kinematics(t, a0, x0, v0) ==
  [v |-> Add(v0, Mul(a0, t)),
   x |-> Add(Add(x0, Mul(v0, t)), Mul(Mul(Mul(Rat(1, 2), a0), t), t))]

getSimTime(s) ==
  IF s.state = "RUNNING" THEN Sub(nowSec, s.t0_wall)
  ELSE IF s.state = "STOPPED" THEN s.t_stop
  ELSE Zero

updateOutputs(w, t, a, vt, xt) ==
  [w EXCEPT !.el.outT = ToFixed3(t),
            !.el.outA = ToFixed3(a),
            !.el.outV = ToFixed3(vt),
            !.el.outX = ToFixed3(xt)]

\* sim.winSec and sim.maxPts
winSec == 10
maxPts == 600

\* lines 221-227: drop entries older than tMin from the front of all four buffers
RECURSIVE trimOld(_, _)
trimOld(s, tMin) ==
  IF Len(s.bufT) > 0 /\ Lt(s.bufT[1], tMin)
  THEN trimOld([s EXCEPT !.bufT = Tail(s.bufT), !.bufA = Tail(s.bufA),
                         !.bufV = Tail(s.bufV), !.bufX = Tail(s.bufX)], tMin)
  ELSE s

\* pushBuffer without the cap on the number of points.
\* C14_PlotBuffers fails with pushBuffer replaced by it.
pushBuffer_NoCap(s, t, a, vt, xt) ==
  LET s1 == [s EXCEPT !.bufT = Append(s.bufT, t), !.bufA = Append(s.bufA, a),
                      !.bufV = Append(s.bufV, vt), !.bufX = Append(s.bufX, xt)]
  IN trimOld(s1, Sub(t, Num(winSec)))

pushBuffer(s, t, a, vt, xt) ==
  LET s1 == [s EXCEPT !.bufT = Append(s.bufT, t), !.bufA = Append(s.bufA, a),
                      !.bufV = Append(s.bufV, vt), !.bufX = Append(s.bufX, xt)]
      s2 == IF Len(s1.bufT) > maxPts
            THEN [s1 EXCEPT !.bufT = Tail(s1.bufT), !.bufA = Tail(s1.bufA),
                            !.bufV = Tail(s1.bufV), !.bufX = Tail(s1.bufX)]
            ELSE s1
  IN trimOld(s2, Sub(t, Num(winSec)))

\* lines 328-346 (drawPlot writes the canvas only, which the model does not hold)
resetAll(w) ==
  LET w1 == stopListeningMotion(w)
      w2 == [w1 EXCEPT !.sim.a0 = Zero, !.sim.x0 = Zero, !.sim.v0 = Zero,
                       !.sim.t0_wall = Zero, !.sim.t_stop = Zero,
                       !.sim.bufT = <<>>, !.sim.bufA = <<>>,
                       !.sim.bufV = <<>>, !.sim.bufX = <<>>]
  IN setState(updateOutputs(w2, Zero, Zero, Zero, Zero), "WAIT")

\* tick without its test of the state: every frame does the work of a RUNNING
\* frame.  C6_TickWorksOnlyWhileRunning fails with tick replaced by it.
tick_AnyState(w) ==
  LET t == getSimTime(w.sim)
      k == kinematics(t, w.sim.a0, w.sim.x0, w.sim.v0)
      a == w.sim.a0
      w1 == updateOutputs(w, t, a, k.v, k.x)
  IN [w1 EXCEPT !.sim = pushBuffer(w1.sim, t, a, k.v, k.x)]

\* lines 391-400: the work of one frame
tick(w) ==
  IF w.sim.state = "RUNNING"
  THEN LET t == getSimTime(w.sim)
           k == kinematics(t, w.sim.a0, w.sim.x0, w.sim.v0)
           a == w.sim.a0
           w1 == updateOutputs(w, t, a, k.v, k.x)
       IN [w1 EXCEPT !.sim = pushBuffer(w1.sim, t, a, k.v, k.x)]
  ELSE w

\* line 401: tick ends by scheduling itself for the next frame
tickReschedules(w) == TRUE

\* lines 86-114: requestMotionPermissionIfNeeded runs from `stage` until it
\* returns or suspends in an await.  stage is "entry" for the call, and "DOE" /
\* "DME" when the awaited request of that name has settled with `outcome`
\* ("granted", "denied", or "error" when the promise is rejected).  The result
\* says which prompt the function now awaits ("" when it has returned) and, when
\* it has returned, the {ok, reason} object.
motionStage(plat) ==
  IF plat.DME = "gated"
  THEN [await |-> "DME", ok |-> FALSE, reason |-> ""]
  ELSE [await |-> "", ok |-> TRUE, reason |-> ""]

requestMotionPermissionIfNeeded(plat, stage, outcome) ==
  CASE stage = "entry" ->
         IF plat.DME = "absent" /\ plat.DOE = "absent"
         THEN [await |-> "", ok |-> FALSE, reason |-> "Sensor unsupported"]
         ELSE IF plat.DOE = "gated"
         THEN [await |-> "DOE", ok |-> FALSE, reason |-> ""]
         ELSE motionStage(plat)
    [] stage = "DOE" ->
         IF outcome = "error"
         THEN [await |-> "", ok |-> FALSE, reason |-> "Orientation permission error"]
         ELSE IF outcome # "granted"
         THEN [await |-> "", ok |-> FALSE, reason |-> "Orientation permission denied"]
         ELSE motionStage(plat)
    [] stage = "DME" ->
         IF outcome = "error"
         THEN [await |-> "", ok |-> FALSE, reason |-> "Motion permission error"]
         ELSE IF outcome # "granted"
         THEN [await |-> "", ok |-> FALSE, reason |-> "Motion permission denied"]
         ELSE [await |-> "", ok |-> TRUE, reason |-> ""]

\* lines 353-363: the Start handler up to its await
startBegin(w) ==
  LET w1 == stopListeningMotion(w)
      w2 == [w1 EXCEPT !.sim.t0_wall = Zero, !.sim.t_stop = Zero,
                       !.sim.bufT = <<>>, !.sim.bufA = <<>>,
                       !.sim.bufV = <<>>, !.sim.bufX = <<>>]
  IN updateOutputs(w2, Zero, w2.sim.a0, w2.sim.v0, w2.sim.x0)

\* lines 365-372: the Start handler after its await, perm being the result
startEnd(w, perm) ==
  IF ~perm.ok
  THEN setState(w, "WAIT")
  ELSE captureOnceThenRun(w)

\* the Stop handler without its test for RUNNING.
\* C16_StopOutsideRunIsNoOp fails with btnStop replaced by it.
btnStop_AnyState(w) ==
  IF w.sim.state = "CAPTURING"
  THEN setState(stopListeningMotion(w), "STOPPED")
  ELSE setState([w EXCEPT !.sim.t_stop = Sub(nowSec, w.sim.t0_wall)], "STOPPED")

\* lines 375-384
btnStop(w) ==
  IF w.sim.state = "CAPTURING"
  THEN setState(stopListeningMotion(w), "STOPPED")
  ELSE IF w.sim.state # "RUNNING" THEN w
  ELSE setState([w EXCEPT !.sim.t_stop = Sub(nowSec, w.sim.t0_wall)], "STOPPED")

\* what the axis, gain and tcapture fields of the analytic page may hold
FieldValues ==
  { [axis |-> "x", gain |-> "abc", tcapture |-> "0.01"],
    [axis |-> "y", gain |-> "2", tcapture |-> "abc"] }

Outcomes == {"granted", "denied", "error"}

nPending == pending.doe + pending.dme

\* the step's writes to the analytic page's world
Commit(w) ==
  /\ sim' = w.sim
  /\ el' = w.el
  /\ listeners' = w.listeners
  /\ motionHandler' = w.motionHandler

\* history kept for the claims: the state the last Stop was clicked in and the
\* elapsed time it then recorded ("" and Null once a Start or Reset has acted
\* since); whether some Start's permission request has ended ok; how many
\* motion events the page has handled while running
Hist(stopFrom, stopT, granted, nEvents) ==
  [stopFrom |-> stopFrom, stopT |-> stopT, granted |-> granted, nEvents |-> nEvents]

Done(perm) == IF perm.await # "" THEN "" ELSE IF perm.ok THEN "granted" ELSE "denied"

\* A Start handler that has run up to `perm`: it stays suspended, or it ends.
StartStep(w, perm, opName, outcome, rest) ==
  /\ Commit(IF perm.await # "" THEN w ELSE startEnd(w, perm))
  /\ pending' = [doe |-> rest.doe + (IF perm.await = "DOE" THEN 1 ELSE 0),
                 dme |-> rest.dme + (IF perm.await = "DME" THEN 1 ELSE 0)]
  /\ lastOp' = [Op(opName, outcome, sim.state) EXCEPT !.done = Done(perm)]
  /\ hist' = Hist("", Null, hist.granted \/ (perm.await = "" /\ perm.ok), hist.nEvents)
  /\ UNCHANGED <<page, platform, now, rafPending, integVars>>

\* click on Start (a disabled button gets no click)
BtnStart_analytic ==
  /\ page = "analytic"
  /\ ~el.btnStartDisabled
  /\ nPending < MaxPending
  /\ Len(listeners) + nPending < MaxListeners
  /\ StartStep(startBegin(World),
               requestMotionPermissionIfNeeded(platform, "entry", ""),
               "start", "", pending)

\* DeviceOrientationEvent.requestPermission() settles for one suspended Start
ResolveDOE_analytic ==
  /\ page = "analytic"
  /\ pending.doe > 0
  /\ \E outcome \in Outcomes :
       StartStep(World, requestMotionPermissionIfNeeded(platform, "DOE", outcome),
                 "resolveDOE", outcome, [pending EXCEPT !.doe = @ - 1])

\* DeviceMotionEvent.requestPermission() settles for one suspended Start
ResolveDME_analytic ==
  /\ page = "analytic"
  /\ pending.dme > 0
  /\ \E outcome \in Outcomes :
       StartStep(World, requestMotionPermissionIfNeeded(platform, "DME", outcome),
                 "resolveDME", outcome, [pending EXCEPT !.dme = @ - 1])

\* click on Stop
BtnStop_analytic ==
  /\ page = "analytic"
  /\ ~el.btnStopDisabled
  /\ Commit(btnStop(World))
  /\ lastOp' = Op("stop", "", sim.state)
  /\ hist' = Hist(sim.state,
                  IF sim.state = "RUNNING" THEN Sub(nowSec, sim.t0_wall) ELSE Null,
                  hist.granted, hist.nEvents)
  /\ UNCHANGED <<page, platform, now, pending, rafPending, integVars>>

\* click on Reset
BtnReset_analytic ==
  /\ page = "analytic"
  /\ Commit(resetAll(World))
  /\ lastOp' = Op("reset", "", sim.state)
  /\ hist' = Hist("", Null, hist.granted, hist.nEvents)
  /\ UNCHANGED <<page, platform, now, pending, rafPending, integVars>>

\* the sensor delivers a devicemotion event
Motion_analytic ==
  /\ page = "analytic"
  /\ \E ev \in Events :
       /\ \/ ~(ev.accelerationIncludingGravity.present \/ ev.acceleration.present)
          \/ \A k \in 1..Len(listeners) : Len(listeners[k].samples) < MaxSamples
       /\ LET w == dispatch(World, [k \in 1..Len(listeners) |-> listeners[k].id], ev)
          IN /\ Commit(w)
             /\ lastOp' = [Op("motion",
                              IF ev.accelerationIncludingGravity.present
                                 \/ ev.acceleration.present
                              THEN "reading" ELSE "none",
                              sim.state) EXCEPT !.ran = w.ran]
  /\ UNCHANGED <<page, platform, now, pending, rafPending, integVars, hist>>

\* the display refreshes: the scheduled tick callback runs
Tick_analytic ==
  /\ page = "analytic"
  /\ rafPending
  /\ sim.state = "RUNNING" => Len(sim.bufT) < MaxBufLen
  /\ Commit(tick(World))
  /\ rafPending' = tickReschedules(World)
  /\ lastOp' = Op("tick", "", sim.state)
  /\ UNCHANGED <<page, platform, now, pending, integVars, hist>>

\* time passes
AdvanceClock ==
  /\ now < MaxNow
  /\ now' = now + 1
  /\ UNCHANGED <<page, platform, sim, el, listeners, motionHandler, pending,
                 rafPending, integVars, lastOp, hist>>

(***************************************************************************)
(* Three-axis integrator (src/main.js 1-323) and magnitude integrator      *)
(* (src/main.js 325-582).  The module variables of the page and the        *)
(* elements it writes are threaded through the functions as one record.    *)
(***************************************************************************)
Integ ==
  [running |-> running, lastT |-> lastT, samples |-> samples, v |-> v, p |-> p,
   lastA |-> lastA, gLP |-> gLP, attached |-> attached, el |-> el,
   listeners |-> listeners]

Vec(x, y, z) == [x |-> x, y |-> y, z |-> z]
Vec0 == Vec(Zero, Zero, Zero)

\* const alpha = 0.92
alpha == Rat(23, 25)

fmt(x) == IF ~IsFinite(ToNum(x)) THEN Dash ELSE Shown(ToFixed3(x))

setStatus(st, text) == [st EXCEPT !.el.status = text]

\* window.addEventListener("devicemotion", f): a listener already registered
\* is not registered again
addEventListener(ls, f) ==
  IF \E k \in 1..Len(ls) : ls[k] = f THEN ls ELSE Append(ls, f)

\* main.js 46-60 (three-axis), from `stage` as for the analytic page
requestMotionPermissionIfNeeded_three(plat, stage, outcome) ==
  CASE stage = "entry" ->
         IF plat.DME = "absent" THEN [await |-> "", ok |-> TRUE, threw |-> FALSE]
         ELSE IF plat.DME = "gated" THEN [await |-> "DME", ok |-> FALSE, threw |-> FALSE]
         ELSE [await |-> "", ok |-> TRUE, threw |-> FALSE]
    [] stage = "DME" ->
         IF outcome = "error" THEN [await |-> "", ok |-> FALSE, threw |-> FALSE]
         ELSE [await |-> "", ok |-> outcome = "granted", threw |-> FALSE]

\* main.js 356-365 (magnitude): no try / catch around the request
requestMotionPermissionIfNeeded_mag(plat, stage, outcome) ==
  CASE stage = "entry" ->
         IF plat.DME = "absent" THEN [await |-> "", ok |-> TRUE, threw |-> FALSE]
         ELSE IF plat.DME = "gated" THEN [await |-> "DME", ok |-> FALSE, threw |-> FALSE]
         ELSE [await |-> "", ok |-> TRUE, threw |-> FALSE]
    [] stage = "DME" ->
         IF outcome = "error" THEN [await |-> "", ok |-> FALSE, threw |-> TRUE]
         ELSE [await |-> "", ok |-> outcome = "granted", threw |-> FALSE]

\* resetAll that forgets to clear the gravity estimate.
\* C11_ResetRestoresLoadState fails with resetAll_three replaced by it.
resetAll_three_KeepGravity(st) ==
  [st EXCEPT !.running = FALSE, !.lastT = Null, !.samples = <<>>,
             !.v = Vec0, !.p = Vec0, !.lastA = Vec0,
             !.el.btnStartDisabled = FALSE, !.el.btnStopDisabled = TRUE,
             !.el.status = "idle",
             !.el.dt = Dash, !.el.a = Dash, !.el.v = Dash, !.el.p = Dash]

\* main.js 62-79
resetAll_three(st) ==
  [st EXCEPT !.running = FALSE, !.lastT = Null, !.samples = <<>>,
             !.v = Vec0, !.p = Vec0, !.lastA = Vec0, !.gLP = Vec0,
             !.el.btnStartDisabled = FALSE, !.el.btnStopDisabled = TRUE,
             !.el.status = "idle",
             !.el.dt = Dash, !.el.a = Dash, !.el.v = Dash, !.el.p = Dash]

\* main.js 367-385
resetAll_mag(st) ==
  [st EXCEPT !.running = FALSE, !.lastT = Null, !.samples = <<>>,
             !.v = Zero, !.p = Zero, !.lastA = Zero, !.gLP = Vec0,
             !.el.btnStartDisabled = FALSE, !.el.btnStopDisabled = TRUE,
             !.el.status = "idle",
             !.el.dt = Dash, !.el.a = Dash, !.el.v = Dash, !.el.p = Dash]

\* The trim with `if` in place of `while`: at most one old sample is dropped.
\* C13_WindowTrim fails with shiftOld replaced by it.
shiftOld_Once(smps, tLimit) ==
  IF Len(smps) > 0 /\ Lt(smps[1].t, tLimit) THEN Tail(smps) ELSE smps

\* main.js 87 / 391: the while loop that shifts old samples out
RECURSIVE shiftOld(_, _)
shiftOld(smps, tLimit) ==
  IF Len(smps) > 0 /\ Lt(smps[1].t, tLimit) THEN shiftOld(Tail(smps), tLimit) ELSE smps

\* main.js 81-88 and 387-392 (the same text in both scripts)
clampWindow(st) ==
  LET w == parseFloat(st.el.windowSel)
      tNow == IF Len(st.samples) > 0 THEN st.samples[Len(st.samples)].t ELSE nowSec
      tMin == Sub(tNow, w)
  IN [st EXCEPT !.samples = shiftOld(st.samples, Sub(tMin, Rat(1, 2)))]

\* main.js 121-123 / 422-424: one step of the gravity low-pass filter
lowPass(g, aig) ==
  Vec(Add(Mul(alpha, g.x), Mul(Sub(Num(1), alpha), aig.x)),
      Add(Mul(alpha, g.y), Mul(Sub(Num(1), alpha), aig.y)),
      Add(Mul(alpha, g.z), Mul(Sub(Num(1), alpha), aig.z)))

\* velocity += 0.5 * (lastAcceleration + acceleration) * dt
trapezoid(vel, la, a, dt) == Add(vel, Mul(Mul(Rat(1, 2), Add(la, a)), dt))

VSub(a, b) == Vec(Sub(a.x, b.x), Sub(a.y, b.y), Sub(a.z, b.z))

\* main.js 106-130 / 408-431: the acceleration an event yields with gravity
\* estimate g, and the estimate after it; ok is false when the event carries
\* no usable reading
accelOf(g, e) ==
  LET acc == e.acceleration
      aig == e.accelerationIncludingGravity
      g1 == lowPass(g, aig)
  IN IF acc.present /\ acc.x # Null
     THEN [ok |-> TRUE, a |-> Vec(acc.x, acc.y, acc.z), g |-> g]
     ELSE IF aig.present /\ aig.x # Null
     THEN [ok |-> TRUE, a |-> VSub(aig, g1), g |-> g1]
     ELSE [ok |-> FALSE, a |-> Vec0, g |-> g]

\* main.js 135-137
velocity_three(vel, la, a, dt) ==
  Vec(trapezoid(vel.x, la.x, a.x, dt),
      trapezoid(vel.y, la.y, a.y, dt),
      trapezoid(vel.z, la.z, a.z, dt))

\* main.js 139-141
position_three(pos, vel, dt) ==
  Vec(Add(pos.x, Mul(vel.x, dt)), Add(pos.y, Mul(vel.y, dt)), Add(pos.z, Mul(vel.z, dt)))

\* main.js 143-161, with the new velocity v1 and position p1
record_three(st, t, dt, r, v1, p1) ==
  LET smp == [t |-> t, ax |-> r.a.x, ay |-> r.a.y, az |-> r.a.z,
              vx |-> v1.x, vy |-> v1.y, vz |-> v1.z,
              px |-> p1.x, py |-> p1.y, pz |-> p1.z]
      st1 == clampWindow([st EXCEPT !.lastT = t, !.gLP = r.g, !.v = v1, !.p = p1,
                                    !.lastA = r.a, !.samples = Append(@, smp)])
      axis == st.el.axisSel
  IN [st1 EXCEPT !.el.dt = fmt(dt), !.el.a = fmt(r.a[axis]),
                 !.el.v = fmt(v1[axis]), !.el.p = fmt(p1[axis])]

\* main.js 139-141, then the rest
move_three(st, t, dt, r, v1) == record_three(st, t, dt, r, v1, position_three(st.p, v1, dt))

\* main.js 132-162: an accepted event with reading r is integrated
integrate_three(st, t, dt, r) ==
  move_three(st, t, dt, r, velocity_three(st.v, st.lastA, r.a, dt))

\* The spacing test with dt >= 0.2 in place of dt > 0.2.
\* C17_SpacingGate fails with accept_three replaced by it.
accept_three_StrictBound(st, t, dt, r) ==
  IF Le(dt, Zero) \/ Ge(dt, Rat(1, 5)) THEN [st EXCEPT !.lastT = t]
  ELSE IF ~r.ok THEN [st EXCEPT !.lastT = t]
  ELSE integrate_three(st, t, dt, r)

\* main.js 98-130, t being the time of the event
accept_three(st, t, dt, r) ==
  IF Le(dt, Zero) \/ Gt(dt, Rat(1, 5)) THEN [st EXCEPT !.lastT = t]
  ELSE IF ~r.ok THEN [st EXCEPT !.lastT = t]
  ELSE integrate_three(st, t, dt, r)

\* main.js 90-162
handleMotion_three(st, e) ==
  IF ~st.running THEN st
  ELSE IF st.lastT = Null THEN [st EXCEPT !.lastT = nowSec]
  ELSE accept_three(st, nowSec, Sub(nowSec, st.lastT), accelOf(st.gLP, e))

\* mag3 as the signed sum of the components in place of the magnitude.
\* C24_MagnitudeMonotone fails with mag3 replaced by it.
mag3_Signed(ax, ay, az) == Add(Add(ax, ay), az)

\* main.js 394-396
mag3(ax, ay, az) == Sqrt(Add(Add(Mul(ax, ax), Mul(ay, ay)), Mul(az, az)))

\* main.js 440-448, with the new velocity v1 and position p1
record_mag(st, t, dt, g, aMag, v1, p1) ==
  LET st1 == clampWindow([st EXCEPT !.lastT = t, !.gLP = g, !.v = v1, !.p = p1,
                                    !.lastA = aMag,
                                    !.samples = Append(@, [t |-> t, a |-> aMag,
                                                           v |-> v1, p |-> p1])])
  IN [st1 EXCEPT !.el.dt = fmt(dt), !.el.a = fmt(aMag),
                 !.el.v = fmt(v1), !.el.p = fmt(p1)]

\* main.js 437, then the rest
move_mag(st, t, dt, g, aMag, v1) ==
  record_mag(st, t, dt, g, aMag, v1, Add(st.p, Mul(v1, dt)))

\* main.js 433-448: an accepted event with magnitude aMag is integrated
integrate_mag(st, t, dt, g, aMag) ==
  move_mag(st, t, dt, g, aMag, trapezoid(st.v, st.lastA, aMag, dt))

\* main.js 404-433, t being the time of the event
accept_mag(st, t, dt, r) ==
  IF Le(dt, Zero) \/ Gt(dt, Rat(1, 5)) THEN [st EXCEPT !.lastT = t]
  ELSE IF ~r.ok THEN [st EXCEPT !.lastT = t]
  ELSE integrate_mag(st, t, dt, r.g, mag3(r.a.x, r.a.y, r.a.z))

\* main.js 398-449
handleMotion_mag(st, e) ==
  IF ~st.running THEN st
  ELSE IF st.lastT = Null THEN [st EXCEPT !.lastT = nowSec]
  ELSE accept_mag(st, nowSec, Sub(nowSec, st.lastT), accelOf(st.gLP, e))

\* main.js 287-288 / 546-547: the Start handler up to its await
startBegin_integ(st) == setStatus(st, "permission...")

\* The Start handler with the subscription made before the permission result is
\* looked at.  C10_SubscribedOnceAfterGrant fails with startEnd_integ replaced
\* by it.
startEnd_integ_SubscribeFirst(st, perm) ==
  LET st0 == [st EXCEPT !.listeners = addEventListener(@, "handleMotion"),
                        !.attached = TRUE]
  IN IF perm.threw THEN st
     ELSE IF ~perm.ok THEN setStatus(st0, "permission denied")
     ELSE [st0 EXCEPT !.running = TRUE, !.lastT = Null,
                      !.el.status = "running",
                      !.el.btnStartDisabled = TRUE,
                      !.el.btnStopDisabled = FALSE]

\* The Start handler without `lastT = null`.
\* C19_FirstEventOnlyRecordsTime fails with startEnd_integ replaced by it.
startEnd_integ_KeepBaseline(st, perm) ==
  IF perm.threw THEN st
  ELSE IF ~perm.ok THEN setStatus(st, "permission denied")
  ELSE LET st1 == [st EXCEPT !.running = TRUE,
                             !.el.status = "running",
                             !.el.btnStartDisabled = TRUE,
                             !.el.btnStopDisabled = FALSE]
       IN IF ~st1.attached
          THEN [st1 EXCEPT !.listeners = addEventListener(@, "handleMotion"),
                           !.attached = TRUE]
          ELSE st1

\* main.js 290-306 / 549-560: the Start handler after its await; when the
\* awaited request threw, the handler has ended with the exception
startEnd_integ(st, perm) ==
  IF perm.threw THEN st
  ELSE IF ~perm.ok THEN setStatus(st, "permission denied")
  ELSE LET st1 == [st EXCEPT !.running = TRUE, !.lastT = Null,
                             !.el.status = "running",
                             !.el.btnStartDisabled = TRUE,
                             !.el.btnStopDisabled = FALSE]
       IN IF ~st1.attached
          THEN [st1 EXCEPT !.listeners = addEventListener(@, "handleMotion"),
                           !.attached = TRUE]
          ELSE st1

\* A Stop that also drops the sample buffer.
\* C12_StopKeepsAccumulatedState fails with stop_integ replaced by it.
stop_integ_DropsSamples(st) ==
  [st EXCEPT !.running = FALSE, !.samples = <<>>, !.el.status = "stopped",
             !.el.btnStartDisabled = FALSE, !.el.btnStopDisabled = TRUE]

\* main.js 309-314 / 563-568
stop_integ(st) ==
  [st EXCEPT !.running = FALSE, !.el.status = "stopped",
             !.el.btnStartDisabled = FALSE, !.el.btnStopDisabled = TRUE]

\* the options of the axis and window-length selectors
AxisOptions == {"x", "y", "z"}
WindowOptions == {"0.1", "2"}

IsInteg == page = "three" \/ page = "mag"

requestMotionPermissionIfNeeded_integ(stage, outcome) ==
  IF page = "three"
  THEN requestMotionPermissionIfNeeded_three(platform, stage, outcome)
  ELSE requestMotionPermissionIfNeeded_mag(platform, stage, outcome)

\* the step's writes to an integrator page
CommitInteg(st) ==
  /\ running' = st.running
  /\ lastT' = st.lastT
  /\ samples' = st.samples
  /\ v' = st.v
  /\ p' = st.p
  /\ lastA' = st.lastA
  /\ gLP' = st.gLP
  /\ attached' = st.attached
  /\ el' = st.el
  /\ listeners' = st.listeners

Flag == IF running THEN "running" ELSE "idle"

DoneInteg(perm) ==
  IF perm.await # "" THEN ""
  ELSE IF perm.threw THEN "threw"
  ELSE IF perm.ok THEN "granted" ELSE "denied"

\* A Start handler of an integrator that has run up to `perm`.
IntegStartStep(st, perm, opName, outcome, rest) ==
  /\ CommitInteg(IF perm.await # "" THEN st ELSE startEnd_integ(st, perm))
  /\ pending' = [rest EXCEPT !.dme = @ + (IF perm.await = "DME" THEN 1 ELSE 0)]
  /\ lastOp' = [Op(opName, outcome, Flag) EXCEPT !.done = DoneInteg(perm)]
  /\ hist' = Hist("", Null, hist.granted \/ (perm.await = "" /\ perm.ok), hist.nEvents)
  /\ UNCHANGED <<page, platform, now, simVars, maxA>>

\* click on Start (magnitude page: click or touchend)
BtnStart_integ ==
  /\ IsInteg
  /\ ~el.btnStartDisabled
  /\ nPending < MaxPending
  /\ IntegStartStep(startBegin_integ(Integ),
                    requestMotionPermissionIfNeeded_integ("entry", ""),
                    "start", "", pending)

\* DeviceMotionEvent.requestPermission() settles for one suspended Start
ResolveDME_integ ==
  /\ IsInteg
  /\ pending.dme > 0
  /\ \E outcome \in Outcomes :
       IntegStartStep(Integ, requestMotionPermissionIfNeeded_integ("DME", outcome),
                      "resolveDME", outcome, [pending EXCEPT !.dme = @ - 1])

BtnStop_integ ==
  /\ IsInteg
  /\ ~el.btnStopDisabled
  /\ CommitInteg(stop_integ(Integ))
  /\ lastOp' = Op("stop", "", Flag)
  /\ UNCHANGED <<page, platform, now, simVars, maxA, pending, hist>>

BtnReset_integ ==
  /\ IsInteg
  /\ CommitInteg(IF page = "three" THEN resetAll_three(Integ) ELSE resetAll_mag(Integ))
  /\ lastOp' = Op("reset", "", Flag)
  /\ UNCHANGED <<page, platform, now, simVars, maxA, pending, hist>>

\* the sensor delivers a devicemotion event to the registered handleMotion
Motion_integ ==
  /\ IsInteg
  /\ Len(listeners) > 0
  /\ running => hist.nEvents < MaxEvents
  /\ \E ev \in Events :
       /\ CommitInteg(IF page = "three" THEN handleMotion_three(Integ, ev)
                      ELSE handleMotion_mag(Integ, ev))
       /\ lastOp' = Op("motion",
                       IF ev.accelerationIncludingGravity.present \/ ev.acceleration.present
                       THEN "reading" ELSE "none",
                       Flag)
  /\ hist' = [hist EXCEPT !.nEvents = @ + (IF running THEN 1 ELSE 0)]
  /\ UNCHANGED <<page, platform, now, simVars, maxA, pending>>

\* main.js 320: the axis selector changes; draw() writes the canvas only
AxisChange_three ==
  /\ page = "three"
  /\ \E axis \in AxisOptions \ {el.axisSel} : el' = [el EXCEPT !.axisSel = axis]
  /\ lastOp' = Op("axis", "", Flag)
  /\ UNCHANGED <<page, platform, now, simVars, listeners, pending, integVars, hist>>

\* main.js 321 / 580: the window-length selector changes
WindowChange_integ ==
  /\ IsInteg
  /\ \E text \in WindowOptions \ {el.windowSel} :
       CommitInteg(clampWindow([Integ EXCEPT !.el.windowSel = text]))
  /\ lastOp' = Op("window", "", Flag)
  /\ UNCHANGED <<page, platform, now, simVars, maxA, pending, hist>>

(***************************************************************************)
(* Max-acceleration logger (src/unnamed/part_000 417-456).                 *)
(***************************************************************************)
Logger == [running |-> running, maxA |-> maxA, el |-> el, listeners |-> listeners]

\* lines 420-434: start() up to the permission request.  Reading
\* DeviceMotionEvent.requestPermission throws when DeviceMotionEvent is not
\* defined, which ends start() after the two assignments.
start_logger(st, plat) ==
  LET st1 == [st EXCEPT !.maxA = Zero, !.running = TRUE]
  IN IF plat.DME = "plain"
     THEN [st1 EXCEPT !.listeners = addEventListener(@, "onMotion")]
     ELSE st1

\* lines 426-430: the then-callback of the permission request
granted_logger(st, response) ==
  IF response = "granted"
  THEN [st EXCEPT !.listeners = addEventListener(@, "onMotion")]
  ELSE st

\* lines 436-438
stop_logger(st) == [st EXCEPT !.running = FALSE]

\* onMotion that stores the latest magnitude in place of the largest.
\* C15_RunningMaximum fails with onMotion replaced by it.
onMotion_LatestValue(st, event) ==
  LET aig == event.accelerationIncludingGravity
      ax == OrElse(aig.x, Zero)
      ay == OrElse(aig.y, Zero)
      az == OrElse(aig.z, Zero)
      a == Sqrt(Add(Add(Mul(ax, ax), Mul(ay, ay)), Mul(az, az)))
  IN IF ~st.running THEN st
     ELSE IF ~aig.present THEN st
     ELSE [st EXCEPT !.maxA = a,
                     !.el.ax = Shown(ToFixed2(ax)), !.el.ay = Shown(ToFixed2(ay)),
                     !.el.az = Shown(ToFixed2(az)), !.el.amag = Shown(ToFixed2(a)),
                     !.el.max = Shown(ToFixed2(a))]

\* lines 440-456; reading .x of an absent accelerationIncludingGravity throws
onMotion(st, event) ==
  LET aig == event.accelerationIncludingGravity
      ax == OrElse(aig.x, Zero)
      ay == OrElse(aig.y, Zero)
      az == OrElse(aig.z, Zero)
      a == Sqrt(Add(Add(Mul(ax, ax), Mul(ay, ay)), Mul(az, az)))
      m == IF Gt(a, st.maxA) THEN a ELSE st.maxA
  IN IF ~st.running THEN st
     ELSE IF ~aig.present THEN st
     ELSE [st EXCEPT !.maxA = m,
                     !.el.ax = Shown(ToFixed2(ax)), !.el.ay = Shown(ToFixed2(ay)),
                     !.el.az = Shown(ToFixed2(az)), !.el.amag = Shown(ToFixed2(a)),
                     !.el.max = Shown(ToFixed2(m))]

CommitLogger(st) ==
  /\ running' = st.running
  /\ maxA' = st.maxA
  /\ el' = st.el
  /\ listeners' = st.listeners

loggerRest == <<page, platform, now, simVars, lastT, samples, v, p, lastA, gLP, attached>>

BtnStart_logger ==
  /\ page = "logger"
  /\ nPending < MaxPending
  /\ CommitLogger(start_logger(Logger, platform))
  /\ pending' = [pending EXCEPT !.dme = @ + (IF platform.DME = "gated" THEN 1 ELSE 0)]
  /\ lastOp' = [Op("start", "", Flag) EXCEPT
                  !.done = CASE platform.DME = "absent" -> "threw"
                             [] platform.DME = "plain" -> "granted"
                             [] OTHER -> ""]
  /\ hist' = Hist("", Null, hist.granted \/ platform.DME = "plain", hist.nEvents)
  /\ UNCHANGED loggerRest

ResolveDME_logger ==
  /\ page = "logger"
  /\ pending.dme > 0
  /\ \E outcome \in Outcomes :
       /\ CommitLogger(IF outcome = "error" THEN Logger
                       ELSE granted_logger(Logger, outcome))
       /\ lastOp' = [Op("resolveDME", outcome, Flag) EXCEPT
                       !.done = CASE outcome = "error" -> "threw"
                                  [] outcome = "granted" -> "granted"
                                  [] OTHER -> "denied"]
       /\ hist' = Hist("", Null, hist.granted \/ outcome = "granted", hist.nEvents)
  /\ pending' = [pending EXCEPT !.dme = @ - 1]
  /\ UNCHANGED loggerRest

BtnStop_logger ==
  /\ page = "logger"
  /\ CommitLogger(stop_logger(Logger))
  /\ lastOp' = Op("stop", "", Flag)
  /\ UNCHANGED <<loggerRest, pending, hist>>

Motion_logger ==
  /\ page = "logger"
  /\ Len(listeners) > 0
  /\ running => hist.nEvents < MaxEvents
  /\ \E ev \in Events :
       /\ CommitLogger(onMotion(Logger, ev))
       /\ lastOp' = Op("motion",
                       IF ev.accelerationIncludingGravity.present \/ ev.acceleration.present
                       THEN "reading" ELSE "none",
                       Flag)
  /\ hist' = [hist EXCEPT !.nEvents = @ + (IF running THEN 1 ELSE 0)]
  /\ UNCHANGED <<loggerRest, pending>>

(***************************************************************************)
(* Page load.                                                              *)
(***************************************************************************)
\* lines 52-73: the sim object as declared
sim0 ==
  [state |-> "WAIT", a0 |-> Zero, x0 |-> Zero, v0 |-> Zero,
   t0_wall |-> Zero, t_stop |-> Zero,
   bufT |-> <<>>, bufA |-> <<>>, bufV |-> <<>>, bufX |-> <<>>]

\* the elements of the analytic page before the script runs
el0_analytic(fields) ==
  [state |-> "", btnStartDisabled |-> FALSE, btnStopDisabled |-> FALSE,
   outT |-> 0, outA |-> 0, outV |-> 0, outX |-> 0,
   axis |-> fields.axis, gain |-> fields.gain, tcapture |-> fields.tcapture]

\* lines 412-413: the script ends with resetAll() and requestAnimationFrame(tick)
Init_analytic ==
  /\ page = "analytic"
  /\ platform \in Platforms
  /\ \E fields \in FieldValues :
       LET w == resetAll([sim |-> sim0, el |-> el0_analytic(fields), listeners |-> <<>>,
                          motionHandler |-> 0, ran |-> 0])
       IN /\ sim = w.sim
          /\ el = w.el
          /\ listeners = w.listeners
          /\ motionHandler = w.motionHandler
  /\ rafPending = TRUE
  /\ running = FALSE
  /\ lastT = Null
  /\ samples = <<>>
  /\ v = Zero
  /\ p = Zero
  /\ lastA = Zero
  /\ gLP = Zero
  /\ attached = FALSE
  /\ maxA = Zero

\* the platforms as the other pages see them: they never read DeviceOrientationEvent
MotionPlatforms == {pl \in Platforms : pl.DOE = "plain"}

\* the elements of an integrator page before the script runs
el0_integ ==
  [status |-> "", dt |-> Dash, a |-> Dash, v |-> Dash, p |-> Dash,
   btnStartDisabled |-> FALSE, btnStopDisabled |-> FALSE,
   axisSel |-> "x", windowSel |-> "2"]

\* main.js 19-31 and 323 / 340-350 and 582: the declarations, then resetAll()
Init_integ ==
  /\ page \in {"three", "mag"}
  /\ platform \in MotionPlatforms
  /\ LET st0 == [running |-> FALSE, lastT |-> Null, samples |-> <<>>,
                 v |-> Zero, p |-> Zero, lastA |-> Zero, gLP |-> Vec0,
                 attached |-> FALSE, el |-> el0_integ, listeners |-> <<>>]
         st == IF page = "three" THEN resetAll_three(st0) ELSE resetAll_mag(st0)
     IN /\ running = st.running
        /\ lastT = st.lastT
        /\ samples = st.samples
        /\ v = st.v
        /\ p = st.p
        /\ lastA = st.lastA
        /\ gLP = st.gLP
        /\ attached = st.attached
        /\ el = st.el
        /\ listeners = st.listeners
  /\ sim = sim0
  /\ motionHandler = 0
  /\ rafPending = FALSE
  /\ maxA = Zero

\* part_000 417-418: the logger's declarations
Init_logger ==
  /\ page = "logger"
  /\ platform \in MotionPlatforms
  /\ running = FALSE
  /\ maxA = Zero
  /\ el = [ax |-> Dash, ay |-> Dash, az |-> Dash, amag |-> Dash, max |-> Dash]
  /\ listeners = <<>>
  /\ lastT = Null
  /\ samples = <<>>
  /\ v = Zero
  /\ p = Zero
  /\ lastA = Zero
  /\ gLP = Zero
  /\ attached = FALSE
  /\ sim = sim0
  /\ motionHandler = 0
  /\ rafPending = FALSE

Init ==
  /\ now = 0
  /\ pending = [doe |-> 0, dme |-> 0]
  /\ lastOp = Op("load", "", "")
  /\ hist = Hist("", Null, FALSE, 0)
  /\ (Init_analytic \/ Init_integ \/ Init_logger)

Next ==
  \/ BtnStart_analytic
  \/ ResolveDOE_analytic
  \/ ResolveDME_analytic
  \/ BtnStop_analytic
  \/ BtnReset_analytic
  \/ Motion_analytic
  \/ Tick_analytic
  \/ BtnStart_integ
  \/ ResolveDME_integ
  \/ BtnStop_integ
  \/ BtnReset_integ
  \/ Motion_integ
  \/ AxisChange_three
  \/ WindowChange_integ
  \/ BtnStart_logger
  \/ ResolveDME_logger
  \/ BtnStop_logger
  \/ Motion_logger
  \/ AdvanceClock

Spec == Init /\ [][Next]_vars

(***************************************************************************)
(* Properties of the analytic simulator.                                   *)
(***************************************************************************)
StartOps == {"start", "resolveDOE", "resolveDME"}

BuffersEmpty ==
  sim.bufT = <<>> /\ sim.bufA = <<>> /\ sim.bufV = <<>> /\ sim.bufX = <<>>

\* the capture closure motionHandler refers to, when it is subscribed
HasCapture == indexOf(listeners, motionHandler) # 0
Capture == listeners[indexOf(listeners, motionHandler)]

\* C1: the state of the analytic simulator changes only along the documented
\* edges: RUNNING is entered only from CAPTURING, a STOPPED simulator stays
\* STOPPED until a Reset takes it to WAIT or a Start action takes it to
\* CAPTURING or WAIT, and no step calls setState(RUNNING) while RUNNING.
C1_StateEdges ==
  [][page = "analytic" =>
       /\ (sim'.state = "RUNNING" /\ sim.state # "RUNNING" => sim.state = "CAPTURING")
       /\ (sim.state = "STOPPED" /\ sim'.state # "STOPPED" =>
             \/ lastOp'.op = "reset" /\ sim'.state = "WAIT"
             \/ lastOp'.op \in StartOps /\ sim'.state \in {"CAPTURING", "WAIT"})
       /\ ~(sim.state = "RUNNING" /\ lastOp' # lastOp /\ lastOp'.ran > 0)]_vars

\* C2: whenever the analytic simulator is not CAPTURING, no capture handler is
\* subscribed to devicemotion.
C2_CaptureSubscriptionRemoved ==
  page = "analytic" /\ sim.state # "CAPTURING" => listeners = <<>>

\* C3: a Stop clicked while CAPTURING leaves the state STOPPED, no capture
\* handler subscribed and a0 as it was, and until a Start or Reset acts no
\* motion event changes a0 or the state.
C3_StopDuringCapture ==
  [][page = "analytic" =>
       /\ (lastOp'.op = "stop" /\ sim.state = "CAPTURING" =>
             sim'.state = "STOPPED" /\ listeners' = <<>> /\ sim'.a0 = sim.a0)
       /\ (lastOp'.op = "motion" /\ hist.stopFrom = "CAPTURING" =>
             sim'.a0 = sim.a0 /\ sim'.state = sim.state)]_vars

\* C4: a Start action that ends with permission granted leaves the simulator
\* CAPTURING with exactly one capture subscription, one that ends with
\* permission refused leaves it in WAIT with none, and the Start click has
\* emptied the four buffers before the permission outcome is known.
C4_StartOutcome ==
  page = "analytic" /\ lastOp.op \in StartOps =>
    /\ (lastOp.done = "granted" => sim.state = "CAPTURING" /\ Len(listeners) = 1)
    /\ (lastOp.done = "denied" => sim.state = "WAIT" /\ listeners = <<>>)
    /\ (lastOp.op = "start" => BuffersEmpty)

\* C5: right after a Reset the state is WAIT, a0, x0, v0, the time base and the
\* stop time are zero, the four buffers are empty, the readouts show zero and
\* no capture handler is subscribed.
C5_ResetClearsAll ==
  page = "analytic" /\ lastOp.op = "reset" =>
    /\ sim.state = "WAIT"
    /\ sim.a0 = Zero /\ sim.x0 = Zero /\ sim.v0 = Zero
    /\ sim.t0_wall = Zero /\ sim.t_stop = Zero
    /\ BuffersEmpty
    /\ el.outT = 0 /\ el.outA = 0 /\ el.outV = 0 /\ el.outX = 0
    /\ listeners = <<>>

\* C6: every frame tick schedules the next one; a tick in WAIT, CAPTURING or
\* STOPPED changes no sim field, buffer or readout, and neither does a motion
\* event that leaves the state STOPPED; and as long as the state is STOPPED
\* after a Stop clicked while RUNNING, the simulation time equals the elapsed
\* time recorded by that Stop.
C6_TickWorksOnlyWhileRunning ==
  [][page = "analytic" =>
       /\ (lastOp'.op = "tick" => rafPending')
       /\ (lastOp'.op = "tick" /\ sim.state # "RUNNING" => sim' = sim /\ el' = el)
       /\ (lastOp'.op = "motion" /\ sim.state = "STOPPED" /\ sim'.state = "STOPPED" =>
             sim' = sim /\ el' = el)
       /\ (sim.state = "STOPPED" /\ hist.stopFrom = "RUNNING" =>
             getSimTime(sim) = hist.stopT)]_vars

\* C6 witness: a tick has run in STOPPED, after a Stop clicked while RUNNING,
\* at a time when a running simulation would show a later time than the frozen one
C6_Witness ==
  /\ page = "analytic"
  /\ sim.state = "STOPPED"
  /\ hist.stopFrom = "RUNNING"
  /\ lastOp.op = "tick"
  /\ lastOp.from = "STOPPED"
  /\ Gt(Sub(nowSec, sim.t0_wall), sim.t_stop)
  /\ getSimTime(sim) = hist.stopT

\* C7: the simulator is never still CAPTURING at a time later than the capture
\* duration after the capture began: it has left for RUNNING when the window
\* elapsed, whether or not a motion event carrying a reading arrived; and a0
\* is always a finite number.
C7_WindowElapsesToRunning ==
  page = "analytic" =>
    /\ (sim.state = "CAPTURING" /\ HasCapture =>
          Le(Sub(nowSec, Capture.tStart), Capture.tc))
    /\ IsFinite(sim.a0)

(***************************************************************************)
(* Properties of the permission handling.                                  *)
(***************************************************************************)
\* C8: on a platform without DeviceMotionEvent no component subscribes to
\* devicemotion or leaves its idle state, and an integrator never shows the
\* status "running".
C8_NoSensorShortCircuit ==
  platform.DME = "absent" =>
    /\ listeners = <<>>
    /\ (page = "analytic" => sim.state = "WAIT")
    /\ (page # "analytic" => ~running)
    /\ (IsInteg => el.status # "running")

\* C9: the step in which a permission request of the three-axis, magnitude or
\* analytic component ends denied or in error subscribes nothing and leaves the
\* component idle (running false, state WAIT), an integrator showing the
\* status "permission denied".
C9_DenialEndsIdle ==
  [][(/\ page \in {"three", "mag", "analytic"}
      /\ pending' # pending
      /\ lastOp'.op \in {"resolveDOE", "resolveDME"}
      /\ lastOp'.arg \in {"denied", "error"})
     => (/\ listeners' = listeners
         /\ (page = "analytic" => sim'.state = "WAIT")
         /\ (IsInteg => ~running' /\ el'.status = "permission denied"))]_vars

\* C10: an integrator page has at most one devicemotion subscription, and has
\* one only after the permission request of some Start has ended ok.
C10_SubscribedOnceAfterGrant ==
  IsInteg => Len(listeners) <= 1 /\ (listeners # <<>> => hist.granted)

\* C10 witness: a second Start's permission request has just been granted while
\* the integrator was already running on the first one's subscription
C10_Witness ==
  /\ IsInteg
  /\ lastOp.op = "resolveDME"
  /\ lastOp.done = "granted"
  /\ lastOp.from = "running"
  /\ attached
  /\ Len(listeners) = 1

(***************************************************************************)
(* Properties of the integrators.                                          *)
(***************************************************************************)
\* the integration state of the page as it is right after page load
IntegZero == IF page = "three" THEN Vec0 ELSE Zero

\* C11: right after a Reset of an integrator the running flag is false, the
\* previous-timestamp marker is null, the sample buffer is empty, and velocity,
\* position, last acceleration and gravity estimate are zero, as at page load.
C11_ResetRestoresLoadState ==
  IsInteg /\ lastOp.op = "reset" =>
    /\ ~running
    /\ lastT = Null
    /\ samples = <<>>
    /\ v = IntegZero /\ p = IntegZero /\ lastA = IntegZero
    /\ gLP = Vec0
    /\ el.status = "idle" /\ ~el.btnStartDisabled /\ el.btnStopDisabled

\* C11 witness: a Reset clicked while running, after events have been handled
\* on the subscription a Start made
C11_Witness ==
  /\ IsInteg
  /\ lastOp.op = "reset"
  /\ lastOp.from = "running"
  /\ hist.nEvents >= 2
  /\ Len(listeners) = 1
  /\ ~running /\ samples = <<>> /\ gLP = Vec0

\* C12: a Stop of an integrator clears the running flag and leaves velocity,
\* position, last acceleration, gravity estimate, sample buffer and
\* previous-timestamp marker as they were, and so does every motion event
\* delivered while the running flag is false.
C12_StopKeepsAccumulatedState ==
  [][IsInteg =>
       /\ (lastOp'.op = "stop" =>
             ~running' /\ UNCHANGED <<v, p, lastA, gLP, samples, lastT>>)
       /\ (lastOp'.op = "motion" /\ ~running =>
             UNCHANGED <<running, v, p, lastA, gLP, samples, lastT>>)]_vars

\* C12 witness: an event carrying a reading has been delivered after a Stop
\* that left samples in the buffer
C12_Witness ==
  /\ IsInteg
  /\ el.status = "stopped"
  /\ ~running
  /\ lastOp.op = "motion"
  /\ lastOp.arg = "reading"
  /\ lastOp.from = "idle"
  /\ samples # <<>>

(***************************************************************************)
(* The sample window of the integrators over a longer stretch of time: the *)
(* page is running on a platform without a prompt and has handled its      *)
(* first event at time 0; events carrying a reading then arrive as time    *)
(* passes and the window length is changed.                                *)
(***************************************************************************)
Init_window ==
  /\ page \in {"three", "mag"}
  /\ platform = [DME |-> "plain", DOE |-> "plain"]
  /\ now = 0
  /\ pending = [doe |-> 0, dme |-> 0]
  /\ \E text \in WindowOptions :
       LET st0 == [running |-> FALSE, lastT |-> Null, samples |-> <<>>,
                   v |-> Zero, p |-> Zero, lastA |-> Zero, gLP |-> Vec0,
                   attached |-> FALSE,
                   el |-> [el0_integ EXCEPT !.windowSel = text],
                   listeners |-> <<>>]
           st1 == IF page = "three" THEN resetAll_three(st0) ELSE resetAll_mag(st0)
           st2 == startEnd_integ(startBegin_integ(st1),
                                 [await |-> "", ok |-> TRUE, threw |-> FALSE])
           st == [st2 EXCEPT !.lastT = Zero]
       IN /\ running = st.running
          /\ lastT = st.lastT
          /\ samples = st.samples
          /\ v = st.v
          /\ p = st.p
          /\ lastA = st.lastA
          /\ gLP = st.gLP
          /\ attached = st.attached
          /\ el = st.el
          /\ listeners = st.listeners
  /\ sim = sim0
  /\ motionHandler = 0
  /\ rafPending = FALSE
  /\ maxA = Zero
  /\ lastOp = Op("motion", "reading", "running")
  /\ hist = Hist("", Null, TRUE, 1)

\* time passes, up to MaxWindowNow ticks
AdvanceClock_window ==
  /\ now < MaxWindowNow
  /\ now' = now + 1
  /\ UNCHANGED <<page, platform, sim, el, listeners, motionHandler, pending,
                 rafPending, integVars, lastOp, hist>>

\* the sensor delivers an event carrying a reading; the step records whether
\* the handler dropped samples from the buffer
Motion_window ==
  /\ IsInteg
  /\ Len(listeners) > 0
  /\ LET st == IF page = "three" THEN handleMotion_three(Integ, EvBoth)
               ELSE handleMotion_mag(Integ, EvBoth)
     IN /\ CommitInteg(st)
        /\ lastOp' = [Op("motion", "reading", Flag) EXCEPT
                        !.done = IF st.lastT # lastT /\ Len(st.samples) <= Len(samples)
                                    /\ st.samples # samples
                                 THEN "trimmed" ELSE ""]
  /\ UNCHANGED <<page, platform, now, simVars, maxA, pending, hist>>

Next_window ==
  \/ AdvanceClock_window
  \/ Motion_window
  \/ WindowChange_integ

WindowSpec == Init_window /\ [][Next_window]_vars

\* the retained samples are in non-decreasing order of time
SamplesSorted ==
  \A i \in 1..(Len(samples) - 1) : Le(samples[i].t, samples[i + 1].t)

\* C13: the samples an integrator retains are in non-decreasing timestamp
\* order, and the oldest is at most windowSeconds + 0.5 older than the newest,
\* for the window length currently selected.
C13_WindowTrim ==
  IsInteg /\ samples # <<>> =>
    /\ SamplesSorted
    /\ Le(Sub(samples[Len(samples)].t, samples[1].t),
          Add(parseFloat(el.windowSel), Rat(1, 2)))

\* C13 witness: appending a sample has made the handler drop old samples, and
\* the oldest retained one is exactly windowSeconds + 0.5 older than the newest
C13_Witness ==
  /\ IsInteg
  /\ lastOp.op = "motion"
  /\ lastOp.done = "trimmed"
  /\ Len(samples) >= 2
  /\ Sub(samples[Len(samples)].t, samples[1].t)
       = Add(parseFloat(el.windowSel), Rat(1, 2))

(***************************************************************************)
(* Properties of the analytic simulator's plot buffers.  The simulator is  *)
(* RUNNING, its capture having ended one clock tick after page load, and   *)
(* the display refreshes at a regular rate: platform.fps frames per clock  *)
(* tick.                                                                   *)
(***************************************************************************)
\* frames per clock tick of the displays in the model
FrameRates == {1, 7}

\* the frames that have run at the current time
framesNow ==
  Cardinality({i \in 1..Len(sim.bufT) : sim.bufT[i] = getSimTime(sim)})

\* clock ticks since the simulation began
ticksRunning ==
  LET t == Mul(Sub(nowSec, sim.t0_wall), Num(TicksPerSec)) IN t.n \div t.d

\* the entries appended to the buffers since the simulation began
appended == platform.fps * ticksRunning + framesNow

Init_buffer ==
  /\ page = "analytic"
  /\ \E r \in FrameRates : platform = [DME |-> "plain", DOE |-> "plain", fps |-> r]
  /\ now = 1
  /\ pending = [doe |-> 0, dme |-> 0]
  /\ LET w0 == resetAll([sim |-> sim0,
                         el |-> el0_analytic([axis |-> "x", gain |-> "abc",
                                              tcapture |-> "0.01"]),
                         listeners |-> <<>>, motionHandler |-> 0, ran |-> 0])
         w == setState([w0 EXCEPT !.sim.a0 = Num(40), !.sim.t0_wall = nowSec],
                       "RUNNING")
     IN /\ sim = w.sim
        /\ el = w.el
        /\ listeners = w.listeners
        /\ motionHandler = w.motionHandler
  /\ rafPending = TRUE
  /\ running = FALSE
  /\ lastT = Null
  /\ samples = <<>>
  /\ v = Zero
  /\ p = Zero
  /\ lastA = Zero
  /\ gLP = Zero
  /\ attached = FALSE
  /\ maxA = Zero
  /\ lastOp = [Op("motion", "reading", "CAPTURING") EXCEPT !.ran = 1]
  /\ hist = Hist("", Null, TRUE, 0)

\* the display refreshes: the scheduled tick callback runs
Tick_buffer ==
  /\ page = "analytic"
  /\ rafPending
  /\ framesNow < platform.fps
  /\ Commit(tick(World))
  /\ rafPending' = tickReschedules(World)
  /\ lastOp' = Op("tick", "", sim.state)
  /\ UNCHANGED <<page, platform, now, pending, integVars, hist>>

\* time passes once the frames of this clock tick have run
AdvanceClock_buffer ==
  /\ now < MaxBufferNow
  /\ framesNow = platform.fps
  /\ now' = now + 1
  /\ UNCHANGED <<page, platform, sim, el, listeners, motionHandler, pending,
                 rafPending, integVars, lastOp, hist>>

Next_buffer ==
  \/ Tick_buffer
  \/ AdvanceClock_buffer

BufferSpec == Init_buffer /\ [][Next_buffer]_vars

\* C14: the four plot buffers have the same length, at most 600; the time
\* buffer is non-decreasing; no retained entry is more than 10 seconds older
\* than the newest; and once 601 or more entries have been appended within 10
\* seconds, exactly 600 are retained.
C14_PlotBuffers ==
  page = "analytic" =>
    /\ Len(sim.bufA) = Len(sim.bufT)
    /\ Len(sim.bufV) = Len(sim.bufT)
    /\ Len(sim.bufX) = Len(sim.bufT)
    /\ Len(sim.bufT) <= maxPts
    /\ \A i \in 1..(Len(sim.bufT) - 1) : Le(sim.bufT[i], sim.bufT[i + 1])
    /\ (sim.bufT # <<>> =>
          Ge(sim.bufT[1], Sub(sim.bufT[Len(sim.bufT)], Num(winSec))))
    /\ (sim.state = "RUNNING" /\ appended > maxPts
          /\ Le(getSimTime(sim), Num(winSec)) =>
          Len(sim.bufT) = maxPts)

\* C14 witness: more than 600 entries have been appended within 10 seconds,
\* at different times, and the frame tick has just appended another
C14_Witness ==
  /\ page = "analytic"
  /\ sim.state = "RUNNING"
  /\ lastOp.op = "tick"
  /\ appended > maxPts
  /\ Le(getSimTime(sim), Num(winSec))
  /\ Len(sim.bufT) = maxPts
  /\ sim.bufT[1] # sim.bufT[maxPts]

(***************************************************************************)
(* The logger page and the integrator pages on their own.                  *)
(***************************************************************************)
Init_loggerPage == Init /\ page = "logger"

Next_logger ==
  \/ BtnStart_logger
  \/ ResolveDME_logger
  \/ BtnStop_logger
  \/ Motion_logger
  \/ AdvanceClock

LoggerSpec == Init_loggerPage /\ [][Next_logger]_vars

Init_integPage == Init /\ IsInteg

Next_integ ==
  \/ BtnStart_integ
  \/ ResolveDME_integ
  \/ BtnStop_integ
  \/ BtnReset_integ
  \/ Motion_integ
  \/ AxisChange_three
  \/ WindowChange_integ
  \/ AdvanceClock

IntegSpec == Init_integPage /\ [][Next_integ]_vars

(***************************************************************************)
(* Properties of the logger.                                               *)
(***************************************************************************)
\* the magnitude of the gravity-inclusive reading of an event
magnitudeOf(ev) ==
  LET aig == ev.accelerationIncludingGravity
  IN mag3(OrElse(aig.x, Zero), OrElse(aig.y, Zero), OrElse(aig.z, Zero))

\* C15: Start sets the logger's running maximum to zero; a motion event handled
\* while running makes it the larger of its old value and the event's
\* magnitude, so it never decreases between Starts, and shows the magnitude
\* and the maximum; Stop, and events delivered while not running, change
\* neither the maximum nor the readouts, and Stop leaves the subscription.
C15_RunningMaximum ==
  [][page = "logger" =>
       /\ (lastOp'.op = "start" => maxA' = Zero /\ running')
       /\ (lastOp'.op = "motion" /\ running =>
             /\ Ge(maxA', maxA)
             /\ IF hist'.nEvents = hist.nEvents
                THEN UNCHANGED <<maxA, el>>
                ELSE \E ev \in Events :
                       IF ev.accelerationIncludingGravity.present
                       THEN /\ maxA' = MathMax(maxA, magnitudeOf(ev))
                            /\ el'.amag = Shown(ToFixed2(magnitudeOf(ev)))
                            /\ el'.max = Shown(ToFixed2(maxA'))
                       ELSE UNCHANGED <<maxA, el>>)
       /\ (lastOp'.op = "motion" /\ ~running => UNCHANGED <<maxA, el>>)
       /\ (lastOp'.op = "stop" => ~running' /\ UNCHANGED <<maxA, el, listeners>>)]_vars

\* C15 witness: the logger is running and has handled an event of magnitude 1
\* after one of magnitude 85; the maximum is still 85
C15_Witness ==
  /\ page = "logger"
  /\ running
  /\ lastOp.op = "motion"
  /\ lastOp.from = "running"
  /\ el.amag = Shown(ToFixed2(Num(1)))
  /\ maxA = Num(85)
  /\ el.max = Shown(ToFixed2(Num(85)))

(***************************************************************************)
(* Stop outside a run, analytic simulator.                                 *)
(***************************************************************************)
\* C16: in every reachable state of the analytic page with the simulator in
\* WAIT or STOPPED, the Stop handler changes nothing: state, a0, the frozen
\* stop time, the buffers, the button states and the subscriptions stay.
C16_StopOutsideRunIsNoOp ==
  page = "analytic" /\ sim.state \in {"WAIT", "STOPPED"} =>
    LET w == btnStop(World)
    IN /\ w.sim = sim
       /\ w.el = el
       /\ w.listeners = listeners
       /\ w.motionHandler = motionHandler

\* C16 witness: the simulator was stopped while RUNNING, with plotted points
\* and a frozen stop time, and a further Stop leaves it as it is
C16_Witness ==
  /\ page = "analytic"
  /\ sim.state = "STOPPED"
  /\ lastOp.op = "stop"
  /\ lastOp.from = "RUNNING"
  /\ sim.bufT # <<>>
  /\ Gt(sim.t_stop, Zero)
  /\ sim.a0 # Zero
  /\ btnStop(World).sim = sim

(***************************************************************************)
(* The events an integrator rejects and accepts.                           *)
(***************************************************************************)
\* the velocity an integrator holds after integrating acceleration a over dt
velocityAfter(a, dt) ==
  IF page = "three" THEN velocity_three(v, lastA, a, dt) ELSE trapezoid(v, lastA, a, dt)

\* C17: a motion event handled while running, after a baseline timestamp is
\* set, sets the baseline to the event's time; when the spacing dt is <= 0 or
\* > 0.2 s the event is rejected and v, p, lastA, gLP and the samples are
\* unchanged; when dt is exactly 0.2 s and the event carries a reading it is
\* integrated: a sample with the event's time is appended and v advances by
\* the trapezoid of the old and new acceleration over dt.
C17_SpacingGate ==
  [][IsInteg /\ running /\ lastT # Null /\ lastOp'.op = "motion"
       /\ now' = now /\ el'.windowSel = el.windowSel =>
       LET dt == Sub(nowSec, lastT)
       IN /\ lastT' = nowSec
          /\ (Le(dt, Zero) \/ Gt(dt, Rat(1, 5)) =>
                UNCHANGED <<v, p, lastA, gLP, samples>>)
          /\ (dt = Rat(1, 5) /\ lastOp'.arg = "reading" =>
                /\ samples' # <<>>
                /\ samples'[Len(samples')].t = nowSec
                /\ Len(samples') <= Len(samples) + 1
                /\ v' = velocityAfter(lastA', dt))]_vars

\* C17 witness: the baseline is the current time and lies more than 0.2 s after
\* the newest sample, so an event spaced more than 0.2 s was rejected
C17_Witness ==
  /\ IsInteg
  /\ running
  /\ lastOp.op = "motion"
  /\ samples # <<>>
  /\ lastT = nowSec
  /\ Gt(Sub(lastT, samples[Len(samples)].t), Rat(1, 5))
  /\ v # IntegZero

\* C18: a motion event handled while running that carries neither reading,
\* arriving after a baseline timestamp is set, leaves v, p, lastA, gLP, the
\* samples and the baseline lastT unchanged.
C18_NoReadingLeavesBaseline ==
  [][IsInteg /\ running /\ lastT # Null /\ lastOp'.op = "motion" /\ lastOp'.arg = "none"
       /\ now' = now /\ el'.windowSel = el.windowSel =>
       UNCHANGED <<v, p, lastA, gLP, samples, lastT>>]_vars

\* C19: every Start that succeeds leaves the integrator running with no
\* baseline timestamp, and a motion event handled while running with no
\* baseline only records its time: v, p, lastA, gLP and the samples are
\* unchanged, so the time since the last event of an earlier run is never
\* integrated.
C19_FirstEventOnlyRecordsTime ==
  [][IsInteg =>
       /\ (lastOp'.op \in StartOps /\ lastOp'.done = "granted" /\ now' = now =>
             running' /\ lastT' = Null /\ UNCHANGED <<v, p, lastA, gLP, samples>>)
       /\ (lastOp'.op = "motion" /\ running /\ lastT = Null /\ now' = now
             /\ el'.windowSel = el.windowSel =>
             lastT' = nowSec /\ UNCHANGED <<v, p, lastA, gLP, samples>>)]_vars

\* C19 witness: three events were handled while running, the second appended
\* the one sample, and the third, carrying a reading and later than the
\* sample, only recorded its time: it was the first event after a restart
C19_Witness ==
  /\ IsInteg
  /\ running
  /\ lastOp.op = "motion"
  /\ lastOp.arg = "reading"
  /\ hist.nEvents = 3
  /\ Len(samples) = 1
  /\ lastT = nowSec
  /\ Gt(lastT, samples[1].t)
  /\ v = (IF page = "three" THEN Vec(samples[1].vx, samples[1].vy, samples[1].vz)
          ELSE samples[1].v)

(***************************************************************************)
(* Trapezoidal integration under constant acceleration.                    *)
(***************************************************************************)
\* the acceleration and the velocity recorded with sample k
sampleA(k) ==
  IF page = "three" THEN Vec(samples[k].ax, samples[k].ay, samples[k].az)
  ELSE samples[k].a

sampleV(k) ==
  IF page = "three" THEN Vec(samples[k].vx, samples[k].vy, samples[k].vz)
  ELSE samples[k].v

\* acceleration a held for the time dt
heldFor(a, dt) ==
  IF page = "three" THEN Vec(Mul(a.x, dt), Mul(a.y, dt), Mul(a.z, dt))
  ELSE Mul(a, dt)

\* C20: after a Start from the reset state and a first event at time 0, when
\* the two events that followed carried the same acceleration a and were
\* spaced dt apart (0 < dt <= 0.2), the velocity recorded with one of the two
\* samples is a * dt.
C20_ConstantAccelerationVelocity ==
  /\ IsInteg
  /\ Len(samples) = 2
  /\ Gt(samples[1].t, Zero)
  /\ Le(samples[1].t, Rat(1, 5))
  /\ samples[2].t = Mul(Num(2), samples[1].t)
  /\ sampleA(1) = sampleA(2)
  => \E k \in 1..2 : sampleV(k) = heldFor(sampleA(1), samples[1].t)

(***************************************************************************)
(* One capture of the analytic simulator, for every text of the gain       *)
(* field: the page has been started on a platform without a prompt and is  *)
(* CAPTURING; events arrive as time passes until the capture completes.    *)
(***************************************************************************)
\* the texts of the axis, gain and tcapture fields in this specification
CaptureFields ==
  [axis : {"x", "y", "z"}, gain : {"2", "-1", "0", "abc"}, tcapture : {"0.01", "abc"}]

Init_capture ==
  /\ page = "analytic"
  /\ platform = [DME |-> "plain", DOE |-> "plain"]
  /\ now = 0
  /\ pending = [doe |-> 0, dme |-> 0]
  /\ \E fields \in CaptureFields :
       LET w0 == resetAll([sim |-> sim0, el |-> el0_analytic(fields), listeners |-> <<>>,
                           motionHandler |-> 0, ran |-> 0])
           w == startEnd(startBegin(w0), requestMotionPermissionIfNeeded(platform, "entry", ""))
       IN /\ sim = w.sim
          /\ el = w.el
          /\ listeners = w.listeners
          /\ motionHandler = w.motionHandler
  /\ rafPending = TRUE
  /\ running = FALSE
  /\ lastT = Null
  /\ samples = <<>>
  /\ v = Zero
  /\ p = Zero
  /\ lastA = Zero
  /\ gLP = Zero
  /\ attached = FALSE
  /\ maxA = Zero
  /\ lastOp = [Op("start", "", "WAIT") EXCEPT !.done = "granted"]
  /\ hist = Hist("", Null, TRUE, 0)

Next_capture ==
  \/ Motion_analytic
  \/ AdvanceClock

CaptureSpec == Init_capture /\ [][Next_capture]_vars

\* the sample a capture takes from an event: the absolute value of the selected
\* component of its reading, clipped into [0, 50]
capturedValue(ev, axis) ==
  LET a == IF ev.accelerationIncludingGravity.present
           THEN ev.accelerationIncludingGravity ELSE ev.acceleration
      c == Coalesce(a[axis], Zero)
      m == MathAbs(c)
  IN IF Gt(m, Num(50)) THEN Num(50) ELSE m

\* the gain the gain field configures: its number, 1 when it holds no number
configuredGain(text) == IF Number(text) = NaN THEN Num(1) ELSE Number(text)

\* C21: when a capture completes, a0 is the configured gain (the number in the
\* gain field, also when it is 0 or negative; 1 only when the field holds no
\* number) times the mean of the captured samples.
C21_CapturedAcceleration ==
  [][page = "analytic" /\ sim.state = "CAPTURING" /\ sim'.state = "RUNNING"
       /\ indexOf(listeners, motionHandler) # 0 =>
       LET h == listeners[indexOf(listeners, motionHandler)]
       IN \E ev \in Events :
            /\ ev.accelerationIncludingGravity.present \/ ev.acceleration.present
            /\ sim'.a0 = Mul(configuredGain(el.gain),
                             mean(Append(h.samples, capturedValue(ev, el.axis))))]_vars

(***************************************************************************)
(* The order of the permission requests of the analytic simulator.         *)
(***************************************************************************)
\* C22: on a platform that requires orientation consent, a Start comes to
\* await motion consent only in the step in which its orientation request is
\* granted; the step in which the orientation request is denied or raises an
\* error requests no motion consent, ends the Start as a denial and leaves the
\* simulator in WAIT with no devicemotion subscription.
C22_OrientationBeforeMotion ==
  [][page = "analytic" /\ platform.DOE = "gated" =>
       /\ (pending'.dme > pending.dme =>
             /\ pending'.doe < pending.doe
             /\ lastOp'.op = "resolveDOE"
             /\ lastOp'.arg = "granted")
       /\ (pending'.doe < pending.doe /\ lastOp'.arg \in {"denied", "error"} =>
             /\ pending'.dme = pending.dme
             /\ lastOp'.done = "denied"
             /\ sim'.state = "WAIT"
             /\ listeners' = <<>>
             /\ motionHandler' = 0)]_vars

(***************************************************************************)
(* Starts of an integrator that are pending across a Reset or a Stop.      *)
(***************************************************************************)
\* C23: when the permission request of a Start resolves directly after a Reset
\* or a Stop, so that the Start was issued before it, the integrator is not
\* made running: running stays false and the sample buffer stays as it was.
C23_PendingStartDoesNotOverride ==
  [][IsInteg /\ lastOp.op \in {"reset", "stop"} /\ lastOp'.op = "resolveDME"
       /\ pending'.dme < pending.dme =>
       ~running' /\ samples' = samples /\ lastT' = lastT]_vars

(***************************************************************************)
(* The magnitude integrator with readings of either sign, on a platform    *)
(* without a permission prompt.                                            *)
(***************************************************************************)
\* an event whose gravity-free reading points backwards
EvBack ==
  [accelerationIncludingGravity |-> NoReading,
   acceleration |-> Reading(Num(-3), Num(-4), Zero)]

SignedEvents == {EvNone, EvBoth, EvBack}

Init_mag ==
  /\ Init
  /\ page = "mag"
  /\ platform = [DME |-> "plain", DOE |-> "plain"]

\* the sensor delivers a devicemotion event to the registered handleMotion
Motion_mag ==
  /\ page = "mag"
  /\ Len(listeners) > 0
  /\ running => hist.nEvents < MaxEvents
  /\ \E ev \in SignedEvents :
       /\ CommitInteg(handleMotion_mag(Integ, ev))
       /\ lastOp' = Op("motion",
                       IF ev.accelerationIncludingGravity.present \/ ev.acceleration.present
                       THEN "reading" ELSE "none",
                       Flag)
  /\ hist' = [hist EXCEPT !.nEvents = @ + (IF running THEN 1 ELSE 0)]
  /\ UNCHANGED <<page, platform, now, simVars, maxA, pending>>

Next_mag ==
  \/ BtnStart_integ
  \/ BtnStop_integ
  \/ BtnReset_integ
  \/ Motion_mag
  \/ AdvanceClock

MagSpec == Init_mag /\ [][Next_mag]_vars

\* C24: on the magnitude page velocity, position and last acceleration are
\* never negative, and no step other than a Reset decreases velocity or
\* position.
C24_MagnitudeMonotone ==
  [][page = "mag" =>
       /\ Ge(v', Zero)
       /\ Ge(p', Zero)
       /\ Ge(lastA', Zero)
       /\ (lastOp'.op # "reset" => Ge(v', v) /\ Ge(p', p))]_vars

\* C24 witness: after a Start, events with a forward and a backward reading
\* and a Stop, velocity and position are positive and the second sample's
\* velocity and position exceed the first's
C24_Witness ==
  /\ page = "mag"
  /\ ~running
  /\ lastOp.op = "stop"
  /\ Len(samples) = 2
  /\ samples[1].a # samples[2].a
  /\ Gt(samples[1].v, Zero)
  /\ Gt(samples[2].v, samples[1].v)
  /\ Gt(samples[2].p, samples[1].p)
  /\ v = samples[2].v
  /\ p = samples[2].p
  /\ Gt(lastA, Zero)

====
